---- MODULE Spec2Model ----
(***************************************************************************)
(* Row-wise sharding with variable batch size                              *)
(* (torchrec/distributed/sharding/vb_rw_sharding.py).                      *)
(*                                                                         *)
(* Input path : VariableBatchRwSparseFeaturesDist (block-size tables,      *)
(*              bucketization, all-to-all).                                *)
(* Output path: VariableBatchRwPooledEmbeddingDist (pack, reduce-scatter)  *)
(*              and VariableBatchRwEmbeddingDistAwaitable (narrow).        *)
(*                                                                         *)
(* Optional values (Python None) are sequences of length 0 or 1.           *)
(***************************************************************************)
EXTENDS Integers, Sequences, FiniteSets, TLC

\* ------------------------------------------------------------------ bounds
MaxWorld == 2       \* world sizes 1..MaxWorld
MaxHash == 3        \* hash sizes 1..MaxHash
MaxBatch == 1       \* examples per batch of one rank 0..MaxBatch
MaxCalls == 2       \* forward calls on one instance in a row 1..MaxCalls
MaxDim == 2         \* embedding widths 1..MaxDim
MaxBatchSize == 2   \* entries of batch_size_per_rank 0..MaxBatchSize

\* ids in one forward input (both kinds together): one bag may hold two ids
MaxIds == MaxBatch + 1

\* a feature kind is not configured, or has one feature
FeatureCounts == {0, 1}

VARIABLES
    \* ---- VariableBatchRwSparseFeaturesDist, one instance per rank
    world_size,                                \* pg.size()
    num_id_list_features,
    num_id_score_list_features,
    id_list_feature_hash_sizes,                \* constructor argument
    id_score_list_feature_hash_sizes,          \* constructor argument
    has_feature_processor,
    id_list_feature_block_sizes_tensor,        \* [rank -> Seq(Nat)]
    id_score_list_feature_block_sizes_tensor,  \* [rank -> Seq(Nat)]
    unbucketize_permute_tensor,                \* [rank -> optional Seq(Nat)]
    \* ---- one forward call of the input path, per rank
    in_pc,                       \* "ready" | "failed" | "outer" | "inner" | "done"
    sparse_features,             \* [rank -> optional SparseFeatures]: the argument
    bucketized_sparse_features,  \* [rank -> optional SparseFeatures]: given to _dist
    a2a_issued,                  \* [rank -> Nat]: exchanges issued by the call
    redistributed,               \* [rank -> optional]: result of the inner await
    forward_calls,               \* [rank -> Nat]: forward calls made on the instance
    \* ---- VariableBatchRwPooledEmbeddingDist, one instance per rank (_rank = r,
    \* ---- _workers = world_size), and one forward call of it per rank
    batch_size_per_rank,         \* sharding_ctx.batch_size_per_rank (and its tensor)
    emb_dim,                     \* width of the pooled embeddings
    local_embs,                  \* [rank -> Seq(row)]: the argument local_embs
    out_pc,                      \* "idle" | "ready" | "failed" | "issued" | "waiting" | "done"
    rs_input,                    \* [rank -> optional Seq(row)]: given to _dist
    rs_issued,                   \* [rank -> Nat]: reduce-scatters issued
    rs_waited,                   \* [rank -> Nat]: waits on the inner awaitable
    awaitable_batch_size,        \* [rank -> optional Nat]: wrapper's _batch_size
    embedding                    \* [rank -> optional Seq(row)]: _wait_impl's result

in_vars == <<world_size, num_id_list_features, num_id_score_list_features,
             id_list_feature_hash_sizes, id_score_list_feature_hash_sizes,
             has_feature_processor, id_list_feature_block_sizes_tensor,
             id_score_list_feature_block_sizes_tensor,
             unbucketize_permute_tensor, in_pc, sparse_features,
             bucketized_sparse_features, a2a_issued, redistributed,
             forward_calls>>

out_vars == <<batch_size_per_rank, emb_dim, local_embs, out_pc, rs_input,
              rs_issued, rs_waited, awaitable_batch_size, embedding>>

vars == <<in_vars, out_vars>>

\* ----------------------------------------------------------------- helpers
None == << >>
Some(x) == <<x>>
Get(o) == o[1]

Ranks == 0 .. (world_size - 1)

RECURSIVE SumSeq(_)
SumSeq(s) == IF s = << >> THEN 0 ELSE Head(s) + SumSeq(Tail(s))

RECURSIVE Flatten(_)
Flatten(ss) == IF ss = << >> THEN << >> ELSE Head(ss) \o Flatten(Tail(ss))

\* number of ids in the first j bags
Prefix(lengths, j) == SumSeq(SubSeq(lengths, 1, j))

\* the bag (1-based index into lengths) that holds value position p
BagOf(lengths, p) ==
    CHOOSE j \in 1 .. Len(lengths) :
        Prefix(lengths, j - 1) < p /\ p <= Prefix(lengths, j)

\* ---------------------------------------------------------- block sizes
\* mutant: the rounding term without its - 1
BlockSizeNoMinusOne(hash_size, W) == (hash_size + W) \div W

\* (hash_size + self._world_size - 1) // self._world_size
BlockSize(hash_size, W) == (hash_size + W - 1) \div W

BlockSizes(hash_sizes, W) ==
    [i \in 1 .. Len(hash_sizes) |-> BlockSize(hash_sizes[i], W)]

\* ------------------------------------------------------- KeyedJaggedTensor
\* [keys: number of features, stride: batch size, lengths: one entry per
\*  (feature, example), feature-major, values: flat ids,
\*  weights: optional flat sequence parallel to values]
KJT(keys, stride, lengths, values, weights) ==
    [keys |-> keys, stride |-> stride, lengths |-> lengths,
     values |-> values, weights |-> weights]

\* 0-based feature of bag j (1-based) in a KJT of the given stride
FeatureOfBag(j, stride) == (j - 1) \div stride

\* bucketize_kjt_before_all2all(kjt, num_buckets, block_sizes,
\*                              output_permute, bucketize_pos)
\* The ids are regrouped into num_buckets contiguous groups ordered by
\* destination shard; inside a group the (feature, example) order and the
\* order inside a bag are kept. Result: [kjt, permute].
bucketize_kjt_before_all2all(kjt, num_buckets, block_sizes, output_permute, bucketize_pos) ==
    LET nb == Len(kjt.lengths)
        n == Len(kjt.values)
        start == [j \in 1 .. nb |-> Prefix(kjt.lengths, j - 1)]
        bag == [p \in 1 .. n |-> BagOf(kjt.lengths, p)]
        block == [p \in 1 .. n |->
                     block_sizes[FeatureOfBag(bag[p], kjt.stride) + 1]]
        shard == [p \in 1 .. n |-> kjt.values[p] \div block[p]]
        local == [p \in 1 .. n |-> kjt.values[p] % block[p]]
        pos == [p \in 1 .. n |-> p - start[bag[p]] - 1]
        \* input positions of bag j that go to shard s, in input order
        group(s, j) ==
            SelectSeq([i \in 1 .. kjt.lengths[j] |-> start[j] + i],
                      LAMBDA p : shard[p] = s)
        groups == [k \in 1 .. num_buckets * nb |->
                       group((k - 1) \div nb, ((k - 1) % nb) + 1)]
        order == Flatten(groups)
        new_lengths == [k \in 1 .. num_buckets * nb |-> Len(groups[k])]
        new_values == [q \in 1 .. Len(order) |-> local[order[q]]]
        new_weights ==
            IF bucketize_pos
            THEN Some([q \in 1 .. Len(order) |-> pos[order[q]]])
            ELSE IF kjt.weights = None THEN None
                 ELSE Some([q \in 1 .. Len(order) |->
                                Get(kjt.weights)[order[q]]])
        permute ==
            IF output_permute
            THEN Some([p \in 1 .. n |->
                          (CHOOSE q \in 1 .. Len(order) : order[q] = p) - 1])
            ELSE None
    IN  [kjt |-> KJT(kjt.keys * num_buckets, kjt.stride, new_lengths,
                     new_values, new_weights),
         permute |-> permute]

\* SparseFeatures(id_list_features, id_score_list_features): two optional KJTs
SparseFeatures(il, isl) ==
    [id_list_features |-> il, id_score_list_features |-> isl]

\* ------------------------------------- VariableBatchRwSparseFeaturesDist
\* __init__: the state of every rank's instance after construction
Constructed(W, il_hash_sizes, isl_hash_sizes, fp) ==
    /\ world_size = W
    /\ num_id_list_features = Len(il_hash_sizes)
    /\ num_id_score_list_features = Len(isl_hash_sizes)
    /\ id_list_feature_hash_sizes = il_hash_sizes
    /\ id_score_list_feature_hash_sizes = isl_hash_sizes
    /\ id_list_feature_block_sizes_tensor =
           [r \in 0 .. (W - 1) |-> BlockSizes(il_hash_sizes, W)]
    /\ id_score_list_feature_block_sizes_tensor =
           [r \in 0 .. (W - 1) |-> BlockSizes(isl_hash_sizes, W)]
    /\ has_feature_processor = fp
    /\ unbucketize_permute_tensor = [r \in 0 .. (W - 1) |-> None]

\* if self._num_id_list_features > 0:
IdListConfigured == num_id_list_features > 0

\* mutant: the id-score-list branch tests the id-list count
IdScoreListConfiguredWrongCount == num_id_list_features > 0

\* if self._num_id_score_list_features > 0:
IdScoreListConfigured == num_id_score_list_features > 0

\* mutant: the permutation is requested for feature processors
IdListOutputPermuteForProcessor == has_feature_processor

\* output_permute=False in the id-list call
IdListOutputPermute == FALSE

\* bucketize_pos=self._has_feature_processor in the id-list call
IdListBucketizePos == has_feature_processor

\* mutant of NumBuckets: one bucket more than there are ranks
NumBucketsPlusOne == world_size + 1

\* num_buckets=self._world_size
NumBuckets == world_size

\* One branch of forward: [failed, features, permute]. The assertion fails on
\* an absent kind; the callee rejects a KJT whose feature count is not the
\* table's.
BucketizeKind(configured, kjt_opt, block_sizes, output_permute, bucketize_pos, old_permute) ==
    IF ~configured
    THEN [failed |-> FALSE, features |-> None, permute |-> old_permute]
    ELSE IF kjt_opt = None \/ Get(kjt_opt).keys # Len(block_sizes)
    THEN [failed |-> TRUE, features |-> None, permute |-> old_permute]
    ELSE LET b == bucketize_kjt_before_all2all(Get(kjt_opt), NumBuckets,
                      block_sizes, output_permute, bucketize_pos)
         IN  [failed |-> FALSE, features |-> Some(b.kjt), permute |-> b.permute]

\* mutant: the id-list call is given the id-score-list table
IdListBranchWrongTable(r, sf) ==
    BucketizeKind(IdListConfigured, sf.id_list_features,
                  id_score_list_feature_block_sizes_tensor[r],
                  IdListOutputPermute, IdListBucketizePos,
                  unbucketize_permute_tensor[r])

\* mutant: only rank 0 bucketizes the positions
IdListBranchPosOnRankZero(r, sf) ==
    BucketizeKind(IdListConfigured, sf.id_list_features,
                  id_list_feature_block_sizes_tensor[r],
                  IdListOutputPermute, IdListBucketizePos /\ r = 0,
                  unbucketize_permute_tensor[r])

IdListBranch(r, sf) ==
    BucketizeKind(IdListConfigured, sf.id_list_features,
                  id_list_feature_block_sizes_tensor[r],
                  IdListOutputPermute, IdListBucketizePos,
                  unbucketize_permute_tensor[r])

\* output_permute=False in the id-score-list call
IdScoreListOutputPermute == FALSE

\* mutant: the id-score-list call bucketizes positions for feature processors
IdScoreListBucketizePosForProcessor == has_feature_processor

\* bucketize_pos=False in the id-score-list call
IdScoreListBucketizePos == FALSE

IdScoreListBranch(r, sf) ==
    BucketizeKind(IdScoreListConfigured, sf.id_score_list_features,
                  id_score_list_feature_block_sizes_tensor[r],
                  IdScoreListOutputPermute, IdScoreListBucketizePos, None)

\* mutant: one exchange per feature kind
DistCallsPerKind(failed) == IF failed THEN 0 ELSE 2

\* mutant: the exchange is issued before the assertions are evaluated
DistCallsBeforeAsserts(failed) == 1

\* number of self._dist(...) calls of one forward call: the call is the last
\* statement, reached only when no assertion failed
DistCalls(failed) == IF failed THEN 0 ELSE 1

\* mutant of ForwardFrame: forward rebuilds the id-list table for one more
\* bucket than there are ranks
ForwardFrameRebuildsTable ==
    /\ id_list_feature_block_sizes_tensor' = [r \in Ranks |-> BlockSizes(id_list_feature_hash_sizes, world_size + 1)]
    /\ UNCHANGED <<world_size, num_id_list_features,
                   num_id_score_list_features, id_list_feature_hash_sizes,
                   id_score_list_feature_hash_sizes, has_feature_processor,
                   id_score_list_feature_block_sizes_tensor>>

\* forward assigns no attribute of the instance but unbucketize_permute_tensor
ForwardFrame ==
    UNCHANGED <<world_size, num_id_list_features,
                num_id_score_list_features, id_list_feature_hash_sizes,
                id_score_list_feature_hash_sizes, has_feature_processor,
                id_list_feature_block_sizes_tensor,
                id_score_list_feature_block_sizes_tensor>>

\* forward(sparse_features) on rank r
Forward(r, sf) ==
    LET il == IdListBranch(r, sf)
        isl == IF il.failed
               THEN [failed |-> TRUE, features |-> None, permute |-> None]
               ELSE IdScoreListBranch(r, sf)
        failed == il.failed \/ isl.failed
    IN  /\ sparse_features' = [sparse_features EXCEPT ![r] = Some(sf)]
        /\ unbucketize_permute_tensor' =
               [unbucketize_permute_tensor EXCEPT ![r] = il.permute]
        /\ a2a_issued' = [a2a_issued EXCEPT ![r] = DistCalls(failed)]
        /\ bucketized_sparse_features' =
               [bucketized_sparse_features EXCEPT ![r] =
                    IF DistCalls(failed) > 0
                    THEN Some(SparseFeatures(il.features, isl.features))
                    ELSE None]
        /\ redistributed' = [redistributed EXCEPT ![r] = None]
        /\ in_pc' = [in_pc EXCEPT ![r] = IF failed THEN "failed" ELSE "outer"]
        /\ forward_calls' = [forward_calls EXCEPT ![r] = @ + 1]
        /\ ForwardFrame
        /\ UNCHANGED out_vars

\* ------------------------------------------------- SparseFeaturesAllToAll
\* the part of a bucketized KJT that goes to rank dst of W ranks
SliceFor(kjt, dst, W) ==
    LET nb == Len(kjt.lengths) \div W
        lo == Prefix(kjt.lengths, dst * nb)
        hi == Prefix(kjt.lengths, (dst + 1) * nb)
    IN  KJT(kjt.keys \div W, kjt.stride,
            SubSeq(kjt.lengths, dst * nb + 1, (dst + 1) * nb),
            SubSeq(kjt.values, lo + 1, hi),
            IF kjt.weights = None THEN None
            ELSE Some(SubSeq(Get(kjt.weights), lo + 1, hi)))

\* what rank r receives for one kind: the slices for r, grouped by origin rank
ReceivedKind(r, kind) ==
    IF Get(bucketized_sparse_features[r])[kind] = None
    THEN None
    ELSE Some([o \in 1 .. world_size |->
                  LET sent == Get(bucketized_sparse_features[o - 1])[kind]
                  IN  IF sent = None THEN None
                      ELSE Some(SliceFor(Get(sent), r, world_size))])

\* every rank has issued its part of the exchange
ExchangeComplete == \A o \in Ranks : a2a_issued[o] > 0

\* awaiting the outer deferred result yields the inner one
WaitOuter(r) ==
    /\ in_pc[r] = "outer"
    /\ in_pc' = [in_pc EXCEPT ![r] = "inner"]
    /\ UNCHANGED <<world_size, num_id_list_features,
                   num_id_score_list_features, id_list_feature_hash_sizes,
                   id_score_list_feature_hash_sizes, has_feature_processor,
                   id_list_feature_block_sizes_tensor,
                   id_score_list_feature_block_sizes_tensor,
                   unbucketize_permute_tensor, sparse_features,
                   bucketized_sparse_features, a2a_issued, redistributed,
                   forward_calls, out_vars>>

\* awaiting the inner deferred result yields the redistributed SparseFeatures;
\* it blocks until the group-wide exchange completes
WaitInner(r) ==
    /\ in_pc[r] = "inner"
    /\ ExchangeComplete
    /\ redistributed' =
           [redistributed EXCEPT ![r] =
                Some(SparseFeatures(ReceivedKind(r, "id_list_features"),
                                    ReceivedKind(r, "id_score_list_features")))]
    /\ in_pc' = [in_pc EXCEPT ![r] = "done"]
    /\ UNCHANGED <<world_size, num_id_list_features,
                   num_id_score_list_features, id_list_feature_hash_sizes,
                   id_score_list_feature_hash_sizes, has_feature_processor,
                   id_list_feature_block_sizes_tensor,
                   id_score_list_feature_block_sizes_tensor,
                   unbucketize_permute_tensor, sparse_features,
                   bucketized_sparse_features, a2a_issued, forward_calls,
                   out_vars>>

\* ------------------------------------------------------------------ inputs
\* hash-size list of F features starting at size h, stepping by one in
\* 1..MaxHash
HashSizes(h, F) == [i \in 1 .. F |-> ((h - 1 + i - 1) % MaxHash) + 1]

\* KJTs of the given features and stride with exactly n legal ids; weighted
\* ids carry the marker 100 + position as weight
KJTs(hash_sizes, stride, n, weighted) ==
    LET F == Len(hash_sizes)
        Ls == {l \in [1 .. F * stride -> 0 .. n] : SumSeq(l) = n}
    IN  UNION {
          {KJT(F, stride, l, v,
               IF weighted THEN Some([p \in 1 .. n |-> 100 + p]) ELSE None) :
             v \in {w \in [1 .. n -> 0 .. (MaxHash - 1)] :
                      \A p \in 1 .. n :
                         w[p] < hash_sizes[FeatureOfBag(BagOf(l, p), stride) + 1]}}
          : l \in Ls}

\* data of a kind that is not configured comes as one feature of hash size 1
SuppliedHashSizes(hash_sizes) ==
    IF hash_sizes = << >> THEN <<1>> ELSE hash_sizes

\* the forward inputs: each kind absent or a KJT, at most max_ids ids in all
SparseFeaturesInputs(max_ids) ==
    UNION {
      {SparseFeatures(il, isl) :
         il \in {None} \cup
                {Some(k) : k \in KJTs(SuppliedHashSizes(id_list_feature_hash_sizes),
                                      B, n[1], FALSE)},
         isl \in {None} \cup
                {Some(k) : k \in KJTs(SuppliedHashSizes(id_score_list_feature_hash_sizes),
                                      B, n[2], TRUE)}}
      : B \in 0 .. MaxBatch,
        n \in {m \in (0 .. max_ids) \X (0 .. max_ids) : m[1] + m[2] <= max_ids}}

\* ----------------------------------------------------------- specification
\* no forward call of the input path has been made
InputIdle ==
    /\ in_pc = [r \in Ranks |-> "ready"]
    /\ sparse_features = [r \in Ranks |-> None]
    /\ bucketized_sparse_features = [r \in Ranks |-> None]
    /\ a2a_issued = [r \in Ranks |-> 0]
    /\ redistributed = [r \in Ranks |-> None]
    /\ forward_calls = [r \in Ranks |-> 0]

\* the output path is constructed; no step has supplied it with a sharding
\* context or pooled embeddings yet
OutputIdle ==
    /\ batch_size_per_rank = << >>
    /\ emb_dim = 1
    /\ local_embs = [r \in Ranks |-> << >>]
    /\ out_pc = [r \in Ranks |-> "idle"]
    /\ rs_input = [r \in Ranks |-> None]
    /\ rs_issued = [r \in Ranks |-> 0]
    /\ rs_waited = [r \in Ranks |-> 0]
    /\ awaitable_batch_size = [r \in Ranks |-> None]
    /\ embedding = [r \in Ranks |-> None]

Init ==
    /\ \E W \in 1 .. MaxWorld, h \in 1 .. MaxHash, fp \in BOOLEAN,
          nil \in FeatureCounts, nisl \in FeatureCounts :
          Constructed(W, HashSizes(h, nil), HashSizes(h + 1, nisl), fp)
    /\ InputIdle
    /\ OutputIdle

\* rank 0 runs one step of the input path on any input
Next ==
    \/ /\ in_pc[0] = "ready"
       /\ \E sf \in SparseFeaturesInputs(MaxIds) : Forward(0, sf)
    \/ WaitOuter(0)
    \/ WaitInner(0)

Spec == Init /\ [][Next]_vars

\* The batch rank r feeds in the group-wide runs: ranks differ in batch size
\* (1 + r mod MaxBatch examples) and in ids (one id per bag).
RankBatch(r, hash_sizes, weighted) ==
    LET hs == SuppliedHashSizes(hash_sizes)
        stride == 1 + (r % MaxBatch)
        n == Len(hs) * stride
    IN  KJT(Len(hs), stride, [j \in 1 .. n |-> 1],
            [j \in 1 .. n |-> (r + j) % hs[FeatureOfBag(j, stride) + 1]],
            IF weighted THEN Some([p \in 1 .. n |-> 100 + p]) ELSE None)

\* rank r's batch, with either kind present or absent
RankInputs(r) ==
    {SparseFeatures(il, isl) :
       il \in {None, Some(RankBatch(r, id_list_feature_hash_sizes, FALSE))},
       isl \in {None, Some(RankBatch(r, id_score_list_feature_hash_sizes, TRUE))}}

\* every rank runs one step of the input path, on its own batch or on the
\* same batch as rank 0
NextA2A ==
    \/ \E r \in Ranks :
          /\ in_pc[r] = "ready"
          /\ \E sf \in RankInputs(r) \cup RankInputs(0) : Forward(r, sf)
    \/ \E r \in Ranks : WaitOuter(r)
    \/ \E r \in Ranks : WaitInner(r)

SpecA2A == Init /\ [][NextA2A]_vars

\* The caller is through with the step of rank r: it holds the step's result,
\* has dropped the deferred result, or has caught the error. The entities of
\* the step are discarded; the instance is kept for the next forward call.
NextCall(r) ==
    /\ in_pc[r] # "ready"
    /\ in_pc' = [in_pc EXCEPT ![r] = "ready"]
    /\ sparse_features' = [sparse_features EXCEPT ![r] = None]
    /\ bucketized_sparse_features' = [bucketized_sparse_features EXCEPT ![r] = None]
    /\ a2a_issued' = [a2a_issued EXCEPT ![r] = 0]
    /\ redistributed' = [redistributed EXCEPT ![r] = None]
    /\ UNCHANGED <<world_size, num_id_list_features,
                   num_id_score_list_features, id_list_feature_hash_sizes,
                   id_score_list_feature_hash_sizes, has_feature_processor,
                   id_list_feature_block_sizes_tensor,
                   id_score_list_feature_block_sizes_tensor,
                   unbucketize_permute_tensor, forward_calls, out_vars>>

\* rank 0 runs up to MaxCalls steps of the input path in a row on one instance
NextCalls ==
    \/ /\ in_pc[0] = "ready"
       /\ forward_calls[0] < MaxCalls
       /\ \E sf \in RankInputs(0) \cup RankInputs(1) : Forward(0, sf)
    \/ WaitOuter(0)
    \/ WaitInner(0)
    \/ NextCall(0)

SpecCalls == Init /\ [][NextCalls]_vars

\* ------------------------------------------------------ claims, input path
Called(r) == in_pc[r] # "ready"
Succeeded(r) == in_pc[r] \in {"outer", "inner", "done"}
Arg(r) == Get(sparse_features[r])
Sent(r) == Get(bucketized_sparse_features[r])

\* b = ceil(h / W): the least b with b * W >= h; legal ids stay in range
CeilBlock(b, h, W) ==
    /\ b * W >= h
    /\ (b - 1) * W < h
    /\ \A v \in 0 .. (h - 1) : v \div b \in 0 .. (W - 1) /\ v % b \in 0 .. (b - 1)

TableIsCeil(table, hash_sizes) ==
    /\ Len(table) = Len(hash_sizes)
    /\ \A i \in 1 .. Len(hash_sizes) : CeilBlock(table[i], hash_sizes[i], world_size)

\* C2: every block size of either kind's table, on every rank, is
\* ceil(hash_size / world_size), so block * world_size >= hash_size, and every
\* legal id v has shard v div block in [0, world_size) and local id
\* v mod block in [0, block).
C2_BlockSizeIsCeil ==
    \A r \in Ranks :
        /\ TableIsCeil(id_list_feature_block_sizes_tensor[r],
                       id_list_feature_hash_sizes)
        /\ TableIsCeil(id_score_list_feature_block_sizes_tensor[r],
                       id_score_list_feature_hash_sizes)

\* a hash size the world size does not divide, and one it does, both rounded
C2_Witness ==
    /\ world_size = 2
    /\ id_list_feature_hash_sizes = <<3>>
    /\ id_list_feature_block_sizes_tensor[1] = <<2>>
    /\ id_score_list_feature_hash_sizes = <<1>>
    /\ id_score_list_feature_block_sizes_tensor[0] = <<1>>
    /\ Succeeded(0)

\* out is in regrouped by destination shard: the id at input position p
\* stands at output position 1 + (number of ids that go to a lower shard, or
\* to the same shard from an earlier position), as its local id, inside the
\* slot of (its shard, its bag).
Regrouped(in, out, block_sizes, W) ==
    LET n == Len(in.values)
        nb == Len(in.lengths)
        bag(p) == BagOf(in.lengths, p)
        b(p) == block_sizes[FeatureOfBag(bag(p), in.stride) + 1]
        sh(p) == in.values[p] \div b(p)
        q(p) == 1 + Cardinality({x \in 1 .. n :
                        sh(x) < sh(p) \/ (sh(x) = sh(p) /\ x < p)})
    IN  /\ Len(out.values) = n
        /\ Len(out.lengths) = W * nb
        /\ SumSeq(out.lengths) = SumSeq(in.lengths)
        /\ \A p \in 1 .. n :
              /\ sh(p) \in 0 .. (W - 1)
              /\ out.values[q(p)] = in.values[p] % b(p)
              /\ Prefix(out.lengths, sh(p) * nb + bag(p) - 1) < q(p)
              /\ q(p) <= Prefix(out.lengths, sh(p) * nb + bag(p))

\* C3: bucketization in forward neither creates nor drops ids: every input
\* id appears exactly once, in the group of shard v div b as local id
\* v mod b, the groups are ordered by shard, ids of one shard keep their
\* relative order, and the lengths sum to the original id count.
C3_BucketizeRegroups ==
    Succeeded(0) =>
        /\ IdListConfigured =>
               /\ Sent(0).id_list_features # None
               /\ Regrouped(Get(Arg(0).id_list_features),
                            Get(Sent(0).id_list_features),
                            id_list_feature_block_sizes_tensor[0], world_size)
        /\ IdScoreListConfigured =>
               /\ Sent(0).id_score_list_features # None
               /\ Regrouped(Get(Arg(0).id_score_list_features),
                            Get(Sent(0).id_score_list_features),
                            id_score_list_feature_block_sizes_tensor[0], world_size)

\* ids 2, 1 of hash size 3 on two ranks: shard 0 gets local id 1, shard 1
\* gets local id 0
C3_Witness ==
    /\ Succeeded(0)
    /\ world_size = 2
    /\ id_list_feature_hash_sizes = <<3>>
    /\ Arg(0).id_list_features # None
    /\ Get(Arg(0).id_list_features).values = <<2, 1>>
    /\ Get(Sent(0).id_list_features).values = <<1, 0>>
    /\ Get(Sent(0).id_list_features).lengths = <<1, 1>>

AbsentButConfigured(sf) ==
    \/ IdListConfigured /\ sf.id_list_features = None
    \/ IdScoreListConfigured /\ sf.id_score_list_features = None

SuppliedButNotConfigured(sf) ==
    \/ ~IdListConfigured /\ sf.id_list_features # None
    \/ ~IdScoreListConfigured /\ sf.id_score_list_features # None

C8_FailsBeforeExchange ==
    in_pc[0] = "failed" =>
        /\ a2a_issued[0] = 0
        /\ bucketized_sparse_features[0] = None

\* the second assertion fails, after the id-list kind was bucketized
C8_Witness ==
    /\ in_pc[0] = "failed"
    /\ IdListConfigured
    /\ Arg(0).id_list_features # None
    /\ IdScoreListConfigured
    /\ Arg(0).id_score_list_features = None
    /\ a2a_issued[0] = 0

\* the permutation perm puts the shard-grouped values back in input order
RestoresOrder(in, out, perm, block_sizes) ==
    /\ Len(perm) = Len(in.values)
    /\ \A p \in 1 .. Len(in.values) :
          /\ perm[p] + 1 \in 1 .. Len(out.values)
          /\ out.values[perm[p] + 1] =
                 in.values[p] %
                 block_sizes[FeatureOfBag(BagOf(in.lengths, p), in.stride) + 1]
    /\ \A p1, p2 \in 1 .. Len(in.values) : p1 # p2 => perm[p1] # perm[p2]

\* C10 as stated: with has_feature_processor and id-list features, forward
\* stores a permutation that restores the original order of the ids.
C10_StoresPermutation ==
    Succeeded(0) /\ has_feature_processor /\ IdListConfigured =>
        /\ unbucketize_permute_tensor[0] # None
        /\ RestoresOrder(Get(Arg(0).id_list_features),
                         Get(Sent(0).id_list_features),
                         Get(unbucketize_permute_tensor[0]),
                         id_list_feature_block_sizes_tensor[0])

\* C10 amended: forward never requests the permutation (output_permute is
\* False whatever has_feature_processor is), so the stored
\* unbucketize_permute_tensor is absent after every call; the permutation
\* the bucketizer returns for the same input when asked does restore the
\* original order.
C10_PermutationNeverRequested ==
    Called(0) =>
        /\ unbucketize_permute_tensor[0] = None
        /\ Succeeded(0) /\ IdListConfigured =>
             LET in == Get(Arg(0).id_list_features)
                 asked == bucketize_kjt_before_all2all(in, world_size,
                              id_list_feature_block_sizes_tensor[0], TRUE,
                              has_feature_processor)
             IN  /\ asked.permute # None
                 /\ asked.kjt = Get(Sent(0).id_list_features)
                 /\ RestoresOrder(in, asked.kjt, Get(asked.permute),
                                  id_list_feature_block_sizes_tensor[0])

\* a feature processor, reordered ids, and no stored permutation
C10_Witness ==
    /\ Succeeded(0)
    /\ has_feature_processor
    /\ world_size = 2
    /\ IdListConfigured
    /\ Get(Arg(0).id_list_features).values = <<2, 1>>
    /\ Get(Sent(0).id_list_features).values = <<1, 0>>
    /\ unbucketize_permute_tensor[0] = None

\* what a successful forward call has handed to the exchange: one
\* SparseFeatures with every configured kind bucketized
CarriesBothKinds(r) ==
    /\ a2a_issued[r] = 1
    /\ bucketized_sparse_features[r] # None
    /\ IF IdListConfigured
       THEN /\ Sent(r).id_list_features # None
            /\ Regrouped(Get(Arg(r).id_list_features),
                         Get(Sent(r).id_list_features),
                         id_list_feature_block_sizes_tensor[r], world_size)
       ELSE Sent(r).id_list_features = None
    /\ IF IdScoreListConfigured
       THEN /\ Sent(r).id_score_list_features # None
            /\ Regrouped(Get(Arg(r).id_score_list_features),
                         Get(Sent(r).id_score_list_features),
                         id_score_list_feature_block_sizes_tensor[r], world_size)
       ELSE Sent(r).id_score_list_features = None

C5_State ==
    \A r \in Ranks :
        /\ Succeeded(r) => CarriesBothKinds(r)
        /\ redistributed[r] # None <=> in_pc[r] = "done"
        /\ in_pc[r] = "outer" => ENABLED WaitOuter(r)

C5_Step ==
    \A r \in Ranks :
        \* forward returns the outer deferred result, whatever the peers do
        /\ in_pc[r] # "outer" /\ in_pc'[r] = "outer" =>
               in_pc[r] = "ready" /\ a2a_issued'[r] = 1
        \* the inner deferred result comes from awaiting the outer one
        /\ in_pc[r] # "inner" /\ in_pc'[r] = "inner" => in_pc[r] = "outer"
        \* the features come from awaiting the inner one, the exchange complete
        /\ in_pc[r] # "done" /\ in_pc'[r] = "done" =>
               in_pc[r] = "inner" /\ ExchangeComplete
        \* awaiting issues nothing further
        /\ in_pc[r] # "ready" => a2a_issued'[r] = a2a_issued[r]

\* C5: a forward call bucketizes both kinds and then issues exactly one
\* all-to-all exchange that carries both; it returns the outer deferred
\* result without waiting for the peers, and the redistributed
\* SparseFeatures exist only after the outer and then the inner deferred
\* result have been awaited, in that order.
C5_OneExchangeTwoLevels == []C5_State /\ [][C5_Step]_vars

\* rank 0 holds the redistributed features of both kinds while rank 1, which
\* issued later, still holds its outer deferred result
C5_Witness ==
    /\ world_size = 2
    /\ in_pc[0] = "done"
    /\ in_pc[1] = "outer"
    /\ a2a_issued = [r \in Ranks |-> 1]
    /\ Get(redistributed[0]).id_list_features # None
    /\ Get(redistributed[0]).id_score_list_features # None

\* ------------------------------------------- output path: pure operators
RECURSIVE MaxSeq(_)
MaxSeq(s) == IF Len(s) = 1 THEN s[1] ELSE IF s[1] >= MaxSeq(Tail(s)) THEN s[1] ELSE MaxSeq(Tail(s))

\* mutant of MaxLength: the batch size of the first rank instead of the largest
MaxLengthOfFirst(bspr) == bspr[1]

\* max_length = max(sharding_ctx.batch_size_per_rank); max() of an empty list
\* raises, which OutFails tests before this operator is applied
MaxLength(bspr) == MaxSeq(bspr)

\* mutant of AwaitableBatchSize: every rank narrows to the first rank's size
AwaitableBatchSizeOfFirst(bspr, rank) == bspr[1]

\* batch_size = sharding_ctx.batch_size_per_rank[self._rank]
AwaitableBatchSize(bspr, rank) == bspr[rank + 1]

\* pad_minf=False: padding rows are filled with zero
PadValue == 0

PadRow(D) == [c \in 1 .. D |-> PadValue]

\* torch.ops.fb.pack_segments(t, lengths, max_length): one block of max_length
\* rows per entry of lengths; block i holds the next lengths[i] rows of t,
\* cut at max_length, and padding rows after them
pack_segments(t, lengths, max_length, D) == [i \in 1 .. Len(lengths) |-> [k \in 1 .. max_length |-> IF k <= lengths[i] THEN t[Prefix(lengths, i - 1) + k] ELSE PadRow(D)]]

\* element e (1-based, row-major order) of a tensor of shape
\* [blocks, rows, width]
ElementAt(packed, rows, width, e) == packed[((e - 1) \div (rows * width)) + 1][(((e - 1) % (rows * width)) \div width) + 1][((e - 1) % width) + 1]

\* Tensor.view(nrows, -1) of a contiguous [blocks, rows, width] tensor: the
\* same elements in row-major order, cut into nrows rows of equal width
View(packed, blocks, rows, width, nrows) == [i \in 1 .. nrows |-> [c \in 1 .. ((blocks * rows * width) \div nrows) |-> ElementAt(packed, rows, width, ((i - 1) * ((blocks * rows * width) \div nrows)) + c)]]

\* mutant of OutFails: a rank without examples of its own skips the collective
OutFailsOnEmptyBatch(r, bspr, t, D, W) ==
    \/ Len(bspr) = 0
    \/ r + 1 > Len(bspr)
    \/ SumSeq(bspr) > Len(t)
    \/ W * MaxLength(bspr) = 0
    \/ (Len(bspr) * MaxLength(bspr) * D) % (W * MaxLength(bspr)) # 0
    \/ bspr[r + 1] = 0

\* lines 183-192 raise: max() of an empty list, an index past the end of
\* batch_size_per_rank, pack_segments reading past the end of local_embs,
\* view(0, -1) of an empty tensor, or a row count that does not divide the
\* number of elements
OutFails(r, bspr, t, D, W) ==
    \/ Len(bspr) = 0
    \/ r + 1 > Len(bspr)
    \/ SumSeq(bspr) > Len(t)
    \/ W * MaxLength(bspr) = 0
    \/ (Len(bspr) * MaxLength(bspr) * D) % (W * MaxLength(bspr)) # 0

\* the tensor handed to self._dist
DistInput(bspr, t, D, W) == View(pack_segments(t, bspr, MaxLength(bspr), D), Len(bspr), MaxLength(bspr), D, W * MaxLength(bspr))

\* elementwise sum of one row taken from each rank's buffer
RECURSIVE SumRows(_, _, _)
SumRows(bufs, i, n) == IF n = 0 THEN [c \in 1 .. Len(bufs[0][i]) |-> 0] ELSE [c \in 1 .. Len(bufs[0][i]) |-> SumRows(bufs, i, n - 1)[c] + bufs[n - 1][i][c]]

\* PooledEmbeddingsReduceScatter: rank r receives its slice (one W-th of the
\* rows) of the elementwise sum of all ranks' buffers
ReduceScatter(bufs, r, W) == [i \in 1 .. (Len(bufs[0]) \div W) |-> SumRows(bufs, (r * (Len(bufs[0]) \div W)) + i, W)]

\* torch.narrow(embedding, 0, 0, n)
Narrow(t, n) == SubSeq(t, 1, n)

\* ------------------------------------------------- output path: actions
\* mutant of RsCalls: the reduce-scatter is issued before the buffer is built
RsCallsBeforePack(failed) == 1

\* self._dist is called once, by the last statement but one of forward
RsCalls(failed) == IF failed THEN 0 ELSE 1

\* VariableBatchRwPooledEmbeddingDist.forward on rank r: packs, views, issues
\* the reduce-scatter and returns the wrapper without waiting
OutForward(r) ==
    /\ r \in Ranks
    /\ out_pc[r] = "ready"
    /\ LET failed == OutFails(r, batch_size_per_rank, local_embs[r], emb_dim, world_size)
       IN  /\ out_pc' = [out_pc EXCEPT ![r] = IF failed THEN "failed" ELSE "issued"]
           /\ rs_issued' = [rs_issued EXCEPT ![r] = @ + RsCalls(failed)]
           /\ rs_input' = [rs_input EXCEPT ![r] = IF failed THEN None ELSE Some(DistInput(batch_size_per_rank, local_embs[r], emb_dim, world_size))]
           /\ awaitable_batch_size' = [awaitable_batch_size EXCEPT ![r] = IF failed THEN None ELSE Some(AwaitableBatchSize(batch_size_per_rank, r))]
    /\ UNCHANGED <<in_vars, batch_size_per_rank, emb_dim, local_embs, rs_waited, embedding>>

\* every rank of the group has issued its reduce-scatter
ReduceScatterComplete == \A o \in Ranks : rs_issued[o] > 0

\* mutant of InnerWaits: the inner result is retrieved twice
InnerWaitsTwice == 1 + 1

\* _wait_impl calls self._awaitable.wait() once
InnerWaits == 1

\* VariableBatchRwEmbeddingDistAwaitable.wait() is entered on rank r: the
\* caller blocks in self._awaitable.wait()
OutWaitEnter(r) ==
    /\ r \in Ranks
    /\ out_pc[r] = "issued"
    /\ out_pc' = [out_pc EXCEPT ![r] = "waiting"]
    /\ rs_waited' = [rs_waited EXCEPT ![r] = @ + InnerWaits]
    /\ UNCHANGED <<in_vars, batch_size_per_rank, emb_dim, local_embs, rs_input, rs_issued, awaitable_batch_size, embedding>>

\* the inner wait returns once the collective has completed; _wait_impl
\* narrows its result and returns
OutWaitReturn(r) ==
    /\ r \in Ranks
    /\ out_pc[r] = "waiting"
    /\ ReduceScatterComplete
    /\ out_pc' = [out_pc EXCEPT ![r] = "done"]
    /\ embedding' = [embedding EXCEPT ![r] = Some(Narrow(ReduceScatter([o \in Ranks |-> Get(rs_input[o])], r, world_size), Get(awaitable_batch_size[r])))]
    /\ UNCHANGED <<in_vars, batch_size_per_rank, emb_dim, local_embs, rs_input, rs_issued, rs_waited, awaitable_batch_size>>

\* ---------------------------------------------- output path: inputs, specs
\* batch sizes of a step, including lists that omit ranks
BatchSizeLists(W) == UNION {[1 .. L -> 0 .. MaxBatchSize] : L \in 0 .. W}

\* a pooled tensor of rank s: n rows of width D with entries that differ by
\* rank, row and column
PooledEmbs(s, n, D, seed) == [k \in 1 .. n |-> [c \in 1 .. D |-> 1 + ((seed + (3 * s) + (2 * k) + c) % 5)]]

\* rows of the lookup output of one rank: one per example of the step, or
\* one too few
PooledRows(bspr, short) == IF short /\ SumSeq(bspr) > 0 THEN SumSeq(bspr) - 1 ELSE SumSeq(bspr)

\* the embedding lookup of a step has finished on every rank: the step's
\* sharding context and each rank's pooled embeddings are the arguments of the
\* forward calls to come
BeginStep ==
    /\ \A r \in Ranks : out_pc[r] = "idle"
    /\ \E D \in 1 .. MaxDim, seed \in {0, 1}, bspr \in BatchSizeLists(world_size), short \in [Ranks -> BOOLEAN] :
           /\ batch_size_per_rank' = bspr
           /\ emb_dim' = D
           /\ local_embs' = [s \in Ranks |-> PooledEmbs(s, PooledRows(bspr, short[s]), D, seed)]
    /\ out_pc' = [r \in Ranks |-> "ready"]
    /\ UNCHANGED <<in_vars, rs_input, rs_issued, rs_waited, awaitable_batch_size, embedding>>

InitOut ==
    \E W \in 1 .. MaxWorld :
        /\ Constructed(W, << >>, << >>, FALSE)
        /\ InputIdle
        /\ OutputIdle

NextOut ==
    \/ BeginStep
    \/ \E r \in 0 .. (MaxWorld - 1) : OutForward(r)
    \/ \E r \in 0 .. (MaxWorld - 1) : OutWaitEnter(r)
    \/ \E r \in 0 .. (MaxWorld - 1) : OutWaitReturn(r)

SpecOut == InitOut /\ [][NextOut]_vars

\* ranks are processes that keep running: while some rank can call forward,
\* enter its wait or return from it, one of them eventually does
FairSpecOut == SpecOut /\ WF_vars(NextOut)

\* ------------------------------------------------ claims, output path
OutCalled(r) == out_pc[r] \notin {"idle", "ready"}
OutIssued(r) == out_pc[r] \in {"issued", "waiting", "done"}
Output(r) == Get(embedding[r])

\* batch_size_per_rank names every rank of the group
CoversGroup == Len(batch_size_per_rank) = world_size

\* rank s holds one pooled row per example of the step
SuppliesRows(s) == Len(local_embs[s]) = SumSeq(batch_size_per_rank)

\* entry c of the sum, over the first n ranks s, of the row that rank s
\* computed for example i (1-based) of rank r
RECURSIVE ContributionSum(_, _, _, _)
ContributionSum(r, i, c, n) == IF n = 0 THEN 0 ELSE ContributionSum(r, i, c, n - 1) + local_embs[n - 1][Prefix(batch_size_per_rank, r) + i][c]

\* C1: once rank r has awaited its result (so every rank has run forward),
\* the output holds a row for each of rank r's examples and row i is the
\* element-wise sum over all ranks s of rank s's row for example i of rank r;
\* padding rows leave no trace in it.
C1_OutputIsSumOfContributions ==
    \A r \in Ranks :
        (CoversGroup /\ out_pc[r] = "done") =>
            /\ Len(Output(r)) >= batch_size_per_rank[r + 1]
            /\ \A i \in 1 .. batch_size_per_rank[r + 1] :
                   /\ Len(Output(r)[i]) = emb_dim
                   /\ \A c \in 1 .. emb_dim : Output(r)[i][c] = ContributionSum(r, i, c, world_size)

\* two ranks with different batch sizes, both positive, so
\* the shorter block is padded; both have their outputs
C1_Witness ==
    /\ world_size = 2
    /\ CoversGroup
    /\ batch_size_per_rank[1] > 0
    /\ batch_size_per_rank[2] > batch_size_per_rank[1]
    /\ \A r \in Ranks : out_pc[r] = "done" /\ Len(Output(r)) > 0

\* C4: for batch_size_per_rank of length W with a positive entry, a forward
\* call given one row per example issues the reduce-scatter, its buffer has
\* W * max rows, and the awaited tensor is the first batch_size_per_rank[r]
\* rows of rank r's reduced slice.
C4_BufferAndOutputRows ==
    \A r \in Ranks :
        (CoversGroup /\ MaxSeq(batch_size_per_rank) > 0) =>
            /\ (OutCalled(r) /\ SuppliesRows(r)) => OutIssued(r)
            /\ OutIssued(r) => Len(Get(rs_input[r])) = world_size * MaxSeq(batch_size_per_rank)
            /\ out_pc[r] = "done" =>
                   /\ Len(Output(r)) = batch_size_per_rank[r + 1]
                   /\ Output(r) = SubSeq(ReduceScatter([o \in Ranks |-> Get(rs_input[o])], r, world_size), 1, batch_size_per_rank[r + 1])

\* batch sizes <<1, 2>>: buffers of 4 rows, outputs of 1 and 2 rows
C4_Witness ==
    /\ world_size = 2
    /\ batch_size_per_rank = <<1, 2>>
    /\ \A r \in Ranks : out_pc[r] = "done" /\ Len(Get(rs_input[r])) = 4
    /\ Len(Output(0)) = 1
    /\ Len(Output(1)) = 2

\* every rank was given the same, complete batch_size_per_rank and one row
\* per example
C6_SameContext == CoversGroup /\ \A s \in Ranks : SuppliesRows(s)

\* exactly one reduce-scatter, of W * max rows, by every rank that ran forward
C6_OneRound ==
    \A r \in Ranks :
        OutCalled(r) =>
            /\ rs_issued[r] = 1
            /\ rs_input[r] # None
            /\ Len(Get(rs_input[r])) = world_size * MaxSeq(batch_size_per_rank)

C6_AllComplete == \A r \in Ranks : out_pc[r] = "done"

\* C6 as stated: with the same batch_size_per_rank on all ranks, every rank
\* that ran the output stage issued exactly one reduce-scatter of W * max rows.
C6_EveryRankIssues == C6_SameContext => C6_OneRound

\* C6, with a positive batch size somewhere: every rank, also one with batch
\* size 0 or below the maximum, issues exactly one reduce-scatter of W * max
\* rows, and under fair scheduling every rank's wait completes.
C6_ConsistentRoundCompletes ==
    /\ []((C6_SameContext /\ MaxSeq(batch_size_per_rank) > 0) => C6_OneRound)
    /\ ((C6_SameContext /\ MaxSeq(batch_size_per_rank) > 0) ~> C6_AllComplete)

\* a rank with batch size 0 next to a rank with a positive one; both complete
C6_Witness ==
    /\ world_size = 2
    /\ C6_SameContext
    /\ \E r \in Ranks : batch_size_per_rank[r + 1] = 0
    /\ MaxSeq(batch_size_per_rank) > 0
    /\ C6_AllComplete
    /\ \A r \in Ranks : rs_issued[r] = 1

\* C9: forward fails, and returns no deferred result, whenever
\* batch_size_per_rank has fewer than W entries or asks for more rows than
\* the local pooled tensor has.
C9_FailsOnMalformedContext ==
    \A r \in Ranks :
        (OutCalled(r) /\ (Len(batch_size_per_rank) < world_size \/ SumSeq(batch_size_per_rank) > Len(local_embs[r]))) =>
            /\ out_pc[r] = "failed"
            /\ rs_issued[r] = 0

\* the deferred result rank r got from forward: none yet, issued, or completed
Deferred(r) == IF out_pc[r] \in {"issued", "waiting"} THEN "Issued" ELSE IF out_pc[r] = "done" THEN "Completed" ELSE "None"

\* until the wrapper is awaited the inner result is not retrieved and nothing
\* is narrowed; a completed result was retrieved once, after the collective
\* completed, and is the narrowed slice
C11_State ==
    \A r \in Ranks :
        /\ out_pc[r] \in {"idle", "ready", "failed", "issued"} => rs_waited[r] = 0 /\ embedding[r] = None
        /\ out_pc[r] = "issued" => rs_issued[r] = 1 /\ rs_input[r] # None /\ awaitable_batch_size[r] # None
        /\ out_pc[r] = "waiting" => rs_waited[r] = 1 /\ embedding[r] = None
        /\ out_pc[r] = "done" =>
               /\ rs_waited[r] = 1
               /\ ReduceScatterComplete
               /\ embedding[r] # None
               /\ Len(Output(r)) = Get(awaitable_batch_size[r])

\* a deferred result comes into being as Issued, by forward; it only moves
\* from Issued to Completed and a Completed one stays as it is
C11_Step ==
    \A r \in Ranks :
        /\ (Deferred(r) = "None" /\ Deferred(r)' # "None") => (out_pc[r] = "ready" /\ out_pc'[r] = "issued")
        /\ Deferred(r) = "Issued" => Deferred(r)' \in {"Issued", "Completed"}
        /\ Deferred(r) = "Completed" => (Deferred(r)' = "Completed" /\ embedding'[r] = embedding[r] /\ rs_waited'[r] = rs_waited[r])

\* C11: forward issues the reduce-scatter and returns without awaiting it; the
\* narrowing happens only in the wrapper's wait, after the inner result has
\* completed; the inner result is retrieved exactly once per deferred result,
\* never before the wrapper is awaited; a deferred result only moves from
\* Issued to Completed.
C11_IssuedThenCompleted == []C11_State /\ [][C11_Step]_vars

\* one rank holds its completed, narrowed result while the other has its
\* deferred result from forward and has not awaited it
C11_Witness ==
    /\ world_size = 2
    /\ out_pc[0] = "done"
    /\ Len(Output(0)) > 0
    /\ out_pc[1] = "issued"
    /\ rs_waited[1] = 0

\* rank r holds a completed result of the step, or is blocked in the wait for
\* one, on the input path or on the output path
InCompletedOrBlocked(r) == in_pc[r] \in {"inner", "done"}
OutCompletedOrBlocked(r) == out_pc[r] \in {"waiting", "done"}

\* C12: no partial success across the ranks: no rank holds a completed result
\* of a step, or is blocked in its wait, while the forward call of a peer has
\* failed (a failed forward has issued no collective, so the wait of a peer
\* that is blocked cannot return).
C12_NoPartialSuccess ==
    \A r \in Ranks : \A q \in Ranks :
        /\ ~(in_pc[q] = "failed" /\ InCompletedOrBlocked(r))
        /\ ~(out_pc[q] = "failed" /\ OutCompletedOrBlocked(r))

\* with one rank, the table of a kind is its hash-size list and every legal id
\* falls in shard 0 with itself as local id
SingleRankTable(table, hash_sizes) ==
    /\ table = hash_sizes
    /\ \A i \in 1 .. Len(hash_sizes) : \A v \in 0 .. (hash_sizes[i] - 1) : v \div table[i] = 0 /\ v % table[i] = v

\* the ids and lengths of out are those of in, in the same order
SameIdsAndLengths(in, out) == out.values = in.values /\ out.lengths = in.lengths /\ out.keys = in.keys /\ out.stride = in.stride

\* a configured kind of a single-rank group is sent, and received after the
\* exchange from the only origin, with the ids and lengths of the input
SingleRankIdentity(configured, kind) ==
    configured =>
        /\ Succeeded(0) => Sent(0)[kind] # None /\ SameIdsAndLengths(Get(Arg(0)[kind]), Get(Sent(0)[kind]))
        /\ in_pc[0] = "done" =>
               /\ Get(redistributed[0])[kind] # None
               /\ Len(Get(Get(redistributed[0])[kind])) = 1
               /\ Get(Get(redistributed[0])[kind])[1] # None
               /\ SameIdsAndLengths(Get(Arg(0)[kind]), Get(Get(Get(redistributed[0])[kind])[1]))

\* C13: in a single-rank group every block size is the feature's hash size,
\* every legal id is assigned to shard 0 with local id v, and the bucketized
\* output, also after the identity exchange, is the input ids and lengths in
\* their original order.
C13_SingleRankIsIdentity ==
    world_size = 1 =>
        /\ SingleRankTable(id_list_feature_block_sizes_tensor[0], id_list_feature_hash_sizes)
        /\ SingleRankTable(id_score_list_feature_block_sizes_tensor[0], id_score_list_feature_hash_sizes)
        /\ SingleRankIdentity(IdListConfigured, "id_list_features")
        /\ SingleRankIdentity(IdScoreListConfigured, "id_score_list_features")

\* a single rank has received, after the exchange, an id-list batch with two
\* different ids
C13_Witness ==
    /\ world_size = 1
    /\ IdListConfigured
    /\ in_pc[0] = "done"
    /\ Get(redistributed[0]).id_list_features # None
    /\ Len(Get(Arg(0).id_list_features).values) = 2
    /\ Get(Arg(0).id_list_features).values[1] # Get(Arg(0).id_list_features).values[2]

\* two tables assign every legal id of every feature to the same shard and
\* local id
SameAssignment(t1, t2, hash_sizes) ==
    \A i \in 1 .. Len(hash_sizes) : \A v \in 0 .. (hash_sizes[i] - 1) : v \div t1[i] = v \div t2[i] /\ v % t1[i] = v % t2[i]

\* the instances of ranks r and q, built from the same hash sizes and world
\* size, hold the same tables
SameTables(r, q) ==
    /\ id_list_feature_block_sizes_tensor[r] = id_list_feature_block_sizes_tensor[q]
    /\ id_score_list_feature_block_sizes_tensor[r] = id_score_list_feature_block_sizes_tensor[q]
    /\ SameAssignment(id_list_feature_block_sizes_tensor[r], id_list_feature_block_sizes_tensor[q], id_list_feature_hash_sizes)
    /\ SameAssignment(id_score_list_feature_block_sizes_tensor[r], id_score_list_feature_block_sizes_tensor[q], id_score_list_feature_hash_sizes)

\* the forward calls of ranks r and q were given identical sparse features
SameRun(r, q) == Called(r) /\ Called(q) /\ sparse_features[r] = sparse_features[q]

CarriesOwnWeights(in, out) ==
    /\ (out.weights = None) = (in.weights = None)
    /\ out.weights # None => \A q \in 1 .. Len(Get(out.weights)) : \E p \in 1 .. Len(Get(in.weights)) : Get(out.weights)[q] = Get(in.weights)[p]

\* the weights a bucketized KJT carries are positions inside a bag of its input
CarriesPositions(in, out) ==
    /\ out.weights # None
    /\ Len(Get(out.weights)) = Len(out.values)
    /\ \A q \in 1 .. Len(Get(out.weights)) : \E j \in 1 .. Len(in.lengths) : Get(out.weights)[q] \in 0 .. (in.lengths[j] - 1)

\* C15: in every successful call the kinds are bucketized independently, each
\* with its own table: the id-score-list output never carries positions and
\* no permutation is ever requested for it, whatever has_feature_processor
\* is; the id-list output carries positions exactly when has_feature_processor
\* is true; a kind whose configured count is 0 goes to the exchange as absent.
C15_KindsBucketizedIndependently ==
    Succeeded(0) =>
        /\ IF IdListConfigured
           THEN /\ Sent(0).id_list_features = Some(bucketize_kjt_before_all2all(Get(Arg(0).id_list_features), world_size, id_list_feature_block_sizes_tensor[0], FALSE, has_feature_processor).kjt)
                /\ has_feature_processor => CarriesPositions(Get(Arg(0).id_list_features), Get(Sent(0).id_list_features))
                /\ ~has_feature_processor => CarriesOwnWeights(Get(Arg(0).id_list_features), Get(Sent(0).id_list_features))
           ELSE Sent(0).id_list_features = None
        /\ IF IdScoreListConfigured
           THEN /\ Sent(0).id_score_list_features = Some(bucketize_kjt_before_all2all(Get(Arg(0).id_score_list_features), world_size, id_score_list_feature_block_sizes_tensor[0], FALSE, FALSE).kjt)
                /\ CarriesOwnWeights(Get(Arg(0).id_score_list_features), Get(Sent(0).id_score_list_features))
                /\ IdScoreListBranch(0, Arg(0)).permute = None
           ELSE Sent(0).id_score_list_features = None

\* a call with a feature processor and both kinds configured, each kind with
\* an id: positions go with the id-list ids, the own weights with the others
C15_Witness ==
    /\ has_feature_processor
    /\ IdListConfigured
    /\ IdScoreListConfigured
    /\ Succeeded(0)
    /\ Len(Get(Sent(0).id_list_features).values) > 0
    /\ Len(Get(Sent(0).id_score_list_features).values) > 0
    /\ Get(Get(Sent(0).id_list_features).weights)[1] = 0
    /\ Get(Get(Sent(0).id_score_list_features).weights)[1] > 100

\* the attributes of the instances that construction fixes
Configuration == <<world_size, num_id_list_features, num_id_score_list_features, id_list_feature_hash_sizes, id_score_list_feature_hash_sizes, has_feature_processor, id_list_feature_block_sizes_tensor, id_score_list_feature_block_sizes_tensor>>

\* the tables and counts are the ones construction computed
C16_AsConstructed ==
    /\ num_id_list_features = Len(id_list_feature_hash_sizes)
    /\ num_id_score_list_features = Len(id_score_list_feature_hash_sizes)
    /\ \A r \in Ranks :
           /\ id_list_feature_block_sizes_tensor[r] = BlockSizes(id_list_feature_hash_sizes, world_size)
           /\ id_score_list_feature_block_sizes_tensor[r] = BlockSizes(id_score_list_feature_hash_sizes, world_size)

\* C16: the block-size tables of both kinds, the world size and the feature
\* counts are fixed at construction: no step of any sequence of forward
\* calls, successful or failing, changes them; of the instance's attributes
\* a forward call can change the stored unbucketize permutation only.
C16_ConfigurationIsFixed == []C16_AsConstructed /\ [][Configuration' = Configuration]_vars

\* the second forward call in a row on one instance has succeeded, after a
\* first one, with features of both kinds configured
C16_Witness ==
    /\ forward_calls[0] = 2
    /\ Succeeded(0)
    /\ IdListConfigured
    /\ IdScoreListConfigured
    /\ world_size = 2

====
